---------------------------- MODULE Spec2Model ----------------------------
(***************************************************************************)
(* A model of the timesheet command-line tool (src/main.go).               *)
(*                                                                         *)
(* Time is counted in whole seconds since local midnight of 2024-01-31,    *)
(* so that the days the model runs through cross a month boundary          *)
(* (2024-01-31, 2024-02-01, 2024-02-02, ...).  A time.Duration is a        *)
(* (possibly negative) number of seconds.  The persisted file is modelled  *)
(* by the list of entries it holds; loadTs makes an absent file and a file *)
(* holding "[]" the same thing, so both are the empty list.                *)
(***************************************************************************)
EXTENDS Integers, Sequences, FiniteSets, TLC

VARIABLES
    file,      \* the entries held by ~/.timesheet
    now,       \* the wall clock
    pc,        \* pc[p]: where invocation p of the tool is
    entries,   \* entries[p]: main's local slice `entries` of invocation p
    args,      \* args[p]: os.Args[1:] of invocation p
    status,    \* status[p]: exit status of invocation p
    out,       \* what the last command that ran to its end printed
    runs,      \* how many invocations that may overlap were started
    call       \* one activation of calcWorktime, taken statement by statement

vars == <<file, now, pc, entries, args, status, out, runs, call>>

toolVars == <<file, now, pc, entries, args, status, out, runs>>

---------------------------------------------------------------------------
(* Bounds of the model *)

\* the clock runs through the days 0..MaxDay
MaxDay == 1

\* the tool stops recording once the file holds MaxLog entries
MaxLog == 3

\* the longest entry list handed to a single activation of calcWorktime
MaxLen == 4

\* at most MaxRuns invocations are started where invocations may overlap
MaxRuns == 3

---------------------------------------------------------------------------
(* Units of time.Duration, in seconds *)

Minute == 60

Hour == 60 * Minute

Day == 24 * Hour

\* the daily quota: time.Hour * 8
Quota == 8 * Hour

Procs == {1, 2}

\* time.Time's zero value, the initial value of `var lastTs time.Time`:
\* an instant before every instant of the model
ZeroTime == -1

\* Duration.Truncate(m): rounds toward zero to a multiple of m
Truncate(d, m) == IF d >= 0 THEN (d \div m) * m ELSE 0 - (((0 - d) \div m) * m)

---------------------------------------------------------------------------
(* The calendar, for the instants of the model *)

\* the number of the local day an instant falls on
DayOf(ts) == ts \div Day

Year(ts) == 2024

Month(ts) == IF DayOf(ts) = 0 THEN 1 ELSE 2

DayOfMonth(ts) == IF DayOf(ts) = 0 THEN 31 ELSE DayOf(ts)

HourOf(ts) == (ts % Day) \div Hour

MinuteOf(ts) == (ts % Hour) \div Minute

SecondOf(ts) == ts % Minute

\* time.Date(y, m, d, hh, mm, ss, 0, loc) for a date (y, m, d) of the model
Date(y, m, d, hh, mm, ss) ==
    (IF m = 1 THEN 0 ELSE d) * Day + hh * Hour + mm * Minute + ss

\* the bytes of a decimal digit, of two and of four digits
Digit(n) == 48 + n

Digits2(n) == <<Digit(n \div 10), Digit(n % 10)>>

Digits4(n) == <<Digit(n \div 1000), Digit((n \div 100) % 10)>> \o Digits2(n % 100)

\* the byte '-'
Dash == <<45>>

\* FormatDate with the layout "02-01-2006"
FormatDateDayFirst(ts) ==
    Digits2(DayOfMonth(ts)) \o Dash \o Digits2(Month(ts)) \o Dash \o Digits4(Year(ts))

\* t.Format(dateFormat), dateFormat = "2006-01-02": the bytes of the string
FormatDate(ts) ==
    Digits4(Year(ts)) \o Dash \o Digits2(Month(ts)) \o Dash \o Digits2(DayOfMonth(ts))

\* t.Format(timeFormat), timeFormat = "15:04": hour and minute
FormatTime(ts) == <<HourOf(ts), MinuteOf(ts)>>

isSameDay(a, b) ==
    /\ DayOfMonth(a) = DayOfMonth(b)
    /\ Month(a) = Month(b)
    /\ Year(a) = Year(b)

---------------------------------------------------------------------------
(* calcWorktime *)

\* the locals of calcWorktime before its loop
calcWorktimeInit == [working |-> FALSE, lastTs |-> ZeroTime, worktime |-> 0]

\* calcWorktimeStep with `worktime =` in place of `worktime +=`
calcWorktimeStepAssign(st, e) ==
    CASE e.Type = "s" ->
            IF ~st.working
            THEN [st EXCEPT !.working = TRUE, !.lastTs = e.Timestamp]
            ELSE st
      [] e.Type = "e" ->
            IF ~st.working
            THEN st
            ELSE [st EXCEPT !.working = FALSE,
                            !.worktime = e.Timestamp - st.lastTs]
      [] OTHER -> st

\* calcWorktimeStep without the `if !working` guard of case "e"
calcWorktimeStepNoGuard(st, e) ==
    CASE e.Type = "s" ->
            IF ~st.working
            THEN [st EXCEPT !.working = TRUE, !.lastTs = e.Timestamp]
            ELSE st
      [] e.Type = "e" ->
            [st EXCEPT !.working = FALSE,
                       !.worktime = st.worktime + (e.Timestamp - st.lastTs)]
      [] OTHER -> st

\* calcWorktimeStep without the `if !working` guard of case "s"
calcWorktimeStepRestart(st, e) ==
    CASE e.Type = "s" ->
            [st EXCEPT !.working = TRUE, !.lastTs = e.Timestamp]
      [] e.Type = "e" ->
            IF ~st.working
            THEN st
            ELSE [st EXCEPT !.working = FALSE,
                            !.worktime = st.worktime + (e.Timestamp - st.lastTs)]
      [] OTHER -> st

\* one iteration of the loop of calcWorktime: the switch on e.Type
calcWorktimeStep(st, e) ==
    CASE e.Type = "s" ->
            IF ~st.working
            THEN [st EXCEPT !.working = TRUE, !.lastTs = e.Timestamp]
            ELSE st
      [] e.Type = "e" ->
            IF ~st.working
            THEN st
            ELSE [st EXCEPT !.working = FALSE,
                            !.worktime = st.worktime + (e.Timestamp - st.lastTs)]
      [] OTHER -> st

\* the locals of calcWorktime after its loop over es
RECURSIVE calcWorktimeLoop(_)
calcWorktimeLoop(es) ==
    IF es = <<>> THEN calcWorktimeInit
    ELSE calcWorktimeStep(calcWorktimeLoop(SubSeq(es, 1, Len(es) - 1)), es[Len(es)])

\* calcWorktimeReturn without the `worktime = 0` branch
calcWorktimeReturnKeeps(st, today, t) ==
    IF st.working /\ today THEN st.worktime + (t - st.lastTs) ELSE st.worktime

\* the statements after the loop; t is what time.Now() returns there
calcWorktimeReturn(st, today, t) ==
    IF st.working
    THEN IF today THEN st.worktime + (t - st.lastTs) ELSE 0
    ELSE st.worktime

calcWorktime(es, today, t) == calcWorktimeReturn(calcWorktimeLoop(es), today, t)

---------------------------------------------------------------------------
(* One activation of calcWorktime, statement by statement *)

\* all sequences over S of length at most n
SeqsUpTo(S, n) == UNION {[1..k -> S] : k \in 0..n}

\* the instants the entries of an activation are drawn from
CalcTimes == {9 * Hour, 12 * Hour, 13 * Hour, 17 * Hour}

\* the instants time.Now() may return to an activation
CalcNow == {9 * Hour + 30 * Minute, 18 * Hour}

CalcEntries == [Timestamp : CalcTimes, Type : {"s", "e"}]

\* no activation is in progress
NoCall ==
    [pc |-> "none", entries |-> <<>>, today |-> FALSE, i |-> 0,
     working |-> FALSE, lastTs |-> ZeroTime, worktime |-> 0,
     now |-> ZeroTime, result |-> 0]

\* the locals held by the activation
CallLocals(c) == [working |-> c.working, lastTs |-> c.lastTs, worktime |-> c.worktime]

\* calcWorktime is entered with the arguments (es, today)
CallEnter(es, today) ==
    [NoCall EXCEPT !.pc = "loop", !.entries = es, !.today = today,
                   !.working = calcWorktimeInit.working,
                   !.lastTs = calcWorktimeInit.lastTs,
                   !.worktime = calcWorktimeInit.worktime]

\* the activation after the loop body ran on its next entry
CallIterate(c) ==
    LET st == calcWorktimeStep(CallLocals(c), c.entries[c.i + 1])
    IN  [c EXCEPT !.i = c.i + 1, !.working = st.working,
                  !.lastTs = st.lastTs, !.worktime = st.worktime]

\* the loop body, on an "s" entry
CalcCaseS ==
    /\ call.pc = "loop"
    /\ call.i < Len(call.entries)
    /\ call.entries[call.i + 1].Type = "s"
    /\ call' = CallIterate(call)
    /\ UNCHANGED toolVars

\* the loop body, on an "e" entry
CalcCaseE ==
    /\ call.pc = "loop"
    /\ call.i < Len(call.entries)
    /\ call.entries[call.i + 1].Type = "e"
    /\ call' = CallIterate(call)
    /\ UNCHANGED toolVars

\* the statements after the loop; the clock is read only for an open session of today
CalcReturn ==
    /\ call.pc = "loop"
    /\ call.i = Len(call.entries)
    /\ \E t \in (IF call.working /\ call.today THEN CalcNow ELSE {ZeroTime}) :
          call' = [call EXCEPT !.pc = "done", !.now = t,
                               !.result = calcWorktimeReturn(CallLocals(call), call.today, t)]
    /\ UNCHANGED toolVars

---------------------------------------------------------------------------
(* The tool: state before any invocation *)

ToolInit ==
    /\ file = <<>>
    /\ now = 9 * Hour
    /\ pc = [p \in Procs |-> "idle"]
    /\ entries = [p \in Procs |-> <<>>]
    /\ args = [p \in Procs |-> <<>>]
    /\ status = [p \in Procs |-> 0]
    /\ out = [cmd |-> "none"]
    /\ runs = 0

CalcInit ==
    /\ ToolInit
    /\ \E es \in SeqsUpTo(CalcEntries, MaxLen), today \in BOOLEAN :
          call = CallEnter(es, today)

CalcNext == CalcCaseS \/ CalcCaseE \/ CalcReturn

SpecCalc == CalcInit /\ [][CalcNext]_vars

---------------------------------------------------------------------------
(* Properties of calcWorktime, under SpecCalc *)

\* es with its k-th entry taken out
Remove(es, k) == SubSeq(es, 1, k - 1) \o SubSeq(es, k + 1, Len(es))

\* Start, End, Start, End, ...: begins with a Start and ends with an End
StrictlyAlternating(es) ==
    /\ Len(es) % 2 = 0
    /\ \A k \in 1..Len(es) : es[k].Type = (IF k % 2 = 1 THEN "s" ELSE "e")

\* Start, End, ..., Start: alternating, with one unmatched Start at the end
AlternatingOpen(es) ==
    /\ Len(es) % 2 = 1
    /\ \A k \in 1..Len(es) : es[k].Type = (IF k % 2 = 1 THEN "s" ELSE "e")

\* the sum, over the pairs (2k-1, 2k), of End.timestamp - Start.timestamp
RECURSIVE PairSum(_)
PairSum(es) ==
    IF Len(es) < 2 THEN 0
    ELSE (es[2].Timestamp - es[1].Timestamp) + PairSum(SubSeq(es, 3, Len(es)))

\* C1: for a sequence that strictly alternates Start, End, ..., Start, End,
\* calcWorktime returns the sum over the pairs of End.timestamp minus the
\* preceding Start.timestamp, whatever the today flag is.
C1_PairSum ==
    (call.pc = "done" /\ StrictlyAlternating(call.entries))
        => call.result = PairSum(call.entries)

\* 09:00 Start, 12:00 End, 13:00 Start, 17:00 End gives 7h, here with today = true
C1_Witness ==
    /\ call.pc = "done"
    /\ call.today
    /\ call.entries = << [Timestamp |-> 9 * Hour, Type |-> "s"],
                         [Timestamp |-> 12 * Hour, Type |-> "e"],
                         [Timestamp |-> 13 * Hour, Type |-> "s"],
                         [Timestamp |-> 17 * Hour, Type |-> "e"] >>
    /\ call.result = 7 * Hour

\* C2: when the loop ends in the working state, today = true returns the
\* accumulated duration plus (now - lastStart) and today = false returns zero;
\* for Start, End, ..., Start the accumulated duration is the sum of the
\* completed pairs and lastStart is the timestamp of the trailing Start.
C2_OpenSession ==
    (call.pc = "done" /\ call.working) =>
        /\ call.result = (IF call.today
                          THEN call.worktime + (call.now - call.lastTs)
                          ELSE 0)
        /\ AlternatingOpen(call.entries) =>
              /\ call.worktime = PairSum(SubSeq(call.entries, 1, Len(call.entries) - 1))
              /\ call.lastTs = call.entries[Len(call.entries)].Timestamp

\* a single Start at 09:00, evaluated at 09:30 with today = true, gives 30m
C2_Witness ==
    /\ call.pc = "done"
    /\ call.today
    /\ call.entries = << [Timestamp |-> 9 * Hour, Type |-> "s"] >>
    /\ call.now = 9 * Hour + 30 * Minute
    /\ call.result = 30 * Minute

\* completed pairs before an open Start, today = false: zero
C2_WitnessNotToday ==
    /\ call.pc = "done"
    /\ ~call.today
    /\ call.working
    /\ call.worktime > 0
    /\ call.result = 0

\* C8: an End processed while not working leaves the accumulated duration,
\* the working flag and lastStart as they are, and the result of a sequence
\* equals the result of the sequence with such an End removed.
C8_OrphanEnd ==
    [][ /\ (/\ call.pc = "loop"
            /\ call'.i = call.i + 1
            /\ call.entries[call.i + 1].Type = "e"
            /\ ~call.working)
           => CallLocals(call') = CallLocals(call)
        /\ call'.pc = "done" =>
              \A k \in 1..Len(call'.entries) :
                 (/\ call'.entries[k].Type = "e"
                  /\ ~calcWorktimeLoop(SubSeq(call'.entries, 1, k - 1)).working)
                 => call'.result =
                      calcWorktime(Remove(call'.entries, k), call'.today, call'.now)
      ]_vars

\* an End at the start of the sequence and one after a closed session, with
\* a session of 3h between them
C8_Witness ==
    /\ call.pc = "done"
    /\ call.entries = << [Timestamp |-> 9 * Hour, Type |-> "e"],
                         [Timestamp |-> 9 * Hour, Type |-> "s"],
                         [Timestamp |-> 12 * Hour, Type |-> "e"],
                         [Timestamp |-> 17 * Hour, Type |-> "e"] >>
    /\ call.result = 3 * Hour

\* C9: a Start processed while working leaves lastStart, the accumulated
\* duration and the working flag as they are, so the next End is measured
\* from the first Start of the run, and the result of a sequence equals the
\* result of the sequence with such a Start removed.
C9_DuplicateStart ==
    [][ /\ (/\ call.pc = "loop"
            /\ call'.i = call.i + 1
            /\ call.entries[call.i + 1].Type = "s"
            /\ call.working)
           => CallLocals(call') = CallLocals(call)
        /\ call'.pc = "done" =>
              \A k \in 1..Len(call'.entries) :
                 (/\ call'.entries[k].Type = "s"
                  /\ calcWorktimeLoop(SubSeq(call'.entries, 1, k - 1)).working)
                 => call'.result =
                      calcWorktime(Remove(call'.entries, k), call'.today, call'.now)
      ]_vars

\* Start 09:00, Start 12:00, End 17:00: the session is 8h, from the first Start
C9_Witness ==
    /\ call.pc = "done"
    /\ call.entries = << [Timestamp |-> 9 * Hour, Type |-> "s"],
                         [Timestamp |-> 12 * Hour, Type |-> "s"],
                         [Timestamp |-> 17 * Hour, Type |-> "e"] >>
    /\ call.result = 8 * Hour

---------------------------------------------------------------------------
(* The commands of the tool *)

\* the times of day the wall clock shows when the tool is run
ClockTimes == {9 * Hour, 17 * Hour + 30}

\* the instants of the wall clock
ClockValues == {d * Day + c : d \in 0..MaxDay, c \in ClockTimes}

\* the HH:MM arguments tried, as <<HH, MM>>; "24:00" does not parse
ArgTimes == {<<17, 0>>, <<24, 0>>}

\* os.Args[1:]
ArgSet ==
    {<<>>, <<"l">>, <<"t">>, <<"s">>, <<"e">>, <<"c">>, <<"a">>, <<"x">>}
        \cup {<<c, hm>> : c \in {"s", "e"}, hm \in ArgTimes}

\* time.Parse(timeFormat, arg): on an error the time returned is the zero time
ParseTime(hm) ==
    IF hm[1] \in 0..23 /\ hm[2] \in 0..59
    THEN [err |-> FALSE, Hour |-> hm[1], Minute |-> hm[2], Second |-> 0]
    ELSE [err |-> TRUE, Hour |-> 0, Minute |-> 0, Second |-> 0]

\* the file's entries, as json.Unmarshal returns them: json.Marshal writes a
\* time.Time in RFC 3339 with its sub-second digits and its zone offset, so
\* every second-resolution instant and entry type is read back as written
loadTs(f) == f

\* saveTs that adds the new entry to what the file holds
saveTsMerge(f, es) == Append(f, es[Len(es)])

\* the file after ioutil.WriteFile of the marshalled es: es replaces what it held
saveTs(f, es) == es

\* entry.String()
String(e) ==
    [Timestamp |-> <<FormatDate(e.Timestamp), HourOf(e.Timestamp),
                     MinuteOf(e.Timestamp), SecondOf(e.Timestamp)>>,
     Type |-> e.Type]

\* what an invocation leaves: the file, its slice, its exit status, its output
Outcome(f, es, st, o) == [file |-> f, entries |-> es, status |-> st, out |-> o]

todaysEntries(es, t) == SelectSeq(es, LAMBDA e : isSameDay(e.Timestamp, t))

listAll(es, f) ==
    Outcome(f, es, 0, [cmd |-> "l", lines |-> [k \in 1..Len(es) |-> String(es[k])]])

listToday(es, f, t) ==
    LET td == todaysEntries(es, t)
    IN  Outcome(f, es, 0, [cmd |-> "t", lines |-> [k \in 1..Len(td) |-> String(td[k])]])

\* addEntry with check(err) of the parse moved after saveTs
addEntryLateCheck(typ, a, es, f, t) ==
    LET parsed == IF Len(a) > 1 THEN ParseTime(a[2]) ELSE ParseTime(<<0, 0>>)
        ts == Date(Year(t), Month(t), DayOfMonth(t),
                   parsed.Hour, parsed.Minute, parsed.Second)
        e  == [Timestamp |-> IF Len(a) > 1 THEN ts ELSE t, Type |-> typ]
        appended == Append(es, e)
    IN  IF Len(a) > 1 /\ parsed.err
        THEN Outcome(saveTs(f, appended), appended, 1, [cmd |-> typ, error |-> "parse"])
        ELSE Outcome(saveTs(f, appended), appended, 0,
                     [cmd |-> typ, echo |-> Len(a) > 1, Timestamp |-> e.Timestamp])

\* the body shared by addStartEntry and addEndEntry, for the entry type typ
addEntry(typ, a, es, f, t) ==
    LET parsed == IF Len(a) > 1 THEN ParseTime(a[2]) ELSE ParseTime(<<0, 0>>)
        ts == Date(Year(t), Month(t), DayOfMonth(t),
                   parsed.Hour, parsed.Minute, parsed.Second)
        e  == [Timestamp |-> IF Len(a) > 1 THEN ts ELSE t, Type |-> typ]
        appended == Append(es, e)
    IN  IF Len(a) > 1 /\ parsed.err
        THEN Outcome(f, es, 1, [cmd |-> typ, error |-> "parse"])
        ELSE Outcome(saveTs(f, appended), appended, 0,
                     [cmd |-> typ, echo |-> Len(a) > 1, Timestamp |-> e.Timestamp])

addStartEntry(a, es, f, t) == addEntry("s", a, es, f, t)

addEndEntry(a, es, f, t) == addEntry("e", a, es, f, t)

calcWorktimeToday(es, f, t) ==
    LET worktime == Truncate(calcWorktime(todaysEntries(es, t), TRUE, t), Minute)
        end == t + (Quota - worktime)
    IN  Outcome(f, es, 0, [cmd |-> "c", worktime |-> worktime, clockOff |-> FormatTime(end)])

\* the map built by the first loop of calcWorktimeAll: date string -> entries
RECURSIVE dayEntriesOf(_)
dayEntriesOf(es) ==
    IF es = <<>> THEN <<>>
    ELSE LET m == dayEntriesOf(SubSeq(es, 1, Len(es) - 1))
             e == es[Len(es)]
             date == FormatDate(e.Timestamp)
             day == IF date \in DOMAIN m THEN m[date] ELSE <<>>
         IN  [d \in DOMAIN m \cup {date} |-> IF d = date THEN Append(day, e) ELSE m[d]]

\* a < b for two strings, byte by byte
RECURSIVE StringLess(_, _)
StringLess(a, b) ==
    IF b = <<>> THEN FALSE
    ELSE IF a = <<>> THEN TRUE
    ELSE IF a[1] # b[1] THEN a[1] < b[1]
    ELSE StringLess(Tail(a), Tail(b))

\* sort.Strings on the keys S of a map
RECURSIVE SortStrings(_)
SortStrings(S) ==
    IF S = {} THEN <<>>
    ELSE LET least == CHOOSE x \in S : \A y \in S \ {x} : StringLess(x, y)
         IN  <<least>> \o SortStrings(S \ {least})

\* dayLoop with dayCount++ outside the else branch
RECURSIVE dayLoopCountsAll(_, _, _)
dayLoopCountsAll(days, m, n) ==
    IF n = 0 THEN [lines |-> <<>>, sum |-> 0, dayCount |-> 0]
    ELSE LET acc == dayLoopCountsAll(days, m, n - 1)
             d == days[n]
             wt == calcWorktime(m[d], FALSE, ZeroTime)
         IN  IF wt = 0
             THEN [acc EXCEPT !.lines = Append(@, [date |-> d, noEnd |-> TRUE, wt |-> 0]),
                              !.dayCount = @ + 1]
             ELSE [lines |-> Append(acc.lines,
                                    [date |-> d, noEnd |-> FALSE, wt |-> Truncate(wt, Minute)]),
                   sum |-> acc.sum + wt,
                   dayCount |-> acc.dayCount + 1]

\* the second loop of calcWorktimeAll over days[1..n]: lines printed, sum, dayCount
RECURSIVE dayLoop(_, _, _)
dayLoop(days, m, n) ==
    IF n = 0 THEN [lines |-> <<>>, sum |-> 0, dayCount |-> 0]
    ELSE LET acc == dayLoop(days, m, n - 1)
             d == days[n]
             wt == calcWorktime(m[d], FALSE, ZeroTime)
         IN  IF wt = 0
             THEN [acc EXCEPT !.lines = Append(@, [date |-> d, noEnd |-> TRUE, wt |-> 0])]
             ELSE [lines |-> Append(acc.lines,
                                    [date |-> d, noEnd |-> FALSE, wt |-> Truncate(wt, Minute)]),
                   sum |-> acc.sum + wt,
                   dayCount |-> acc.dayCount + 1]

calcWorktimeAll(es, f) ==
    LET m == dayEntriesOf(es)
        days == SortStrings(DOMAIN m)
        r == dayLoop(days, m, Len(days))
        expected == Quota * r.dayCount
        diff == r.sum - expected
    IN  Outcome(f, es, 0,
                [cmd |-> "a", days |-> days, dayEntries |-> m, lines |-> r.lines,
                 Expected |-> Truncate(expected, Minute),
                 Actual |-> Truncate(r.sum, Minute),
                 Diff |-> Truncate(diff, Minute)])

\* the switch of main on os.Args[1]; es is what loadTs returned
dispatch(a, es, f, t) ==
    CASE a[1] = "l" -> listAll(es, f)
      [] a[1] = "t" -> listToday(es, f, t)
      [] a[1] = "s" -> addStartEntry(a, es, f, t)
      [] a[1] = "e" -> addEndEntry(a, es, f, t)
      [] a[1] = "c" -> calcWorktimeToday(es, f, t)
      [] a[1] = "a" -> calcWorktimeAll(es, f)
      [] OTHER -> Outcome(f, es, 0, [cmd |-> "none"])

\* main, from its first line to its last
main(a, f, t) ==
    IF Len(a) < 1
    THEN Outcome(f, <<>>, 1, [cmd |-> "none", error |-> "Not enough parameters given"])
    ELSE dispatch(a, loadTs(f), f, t)

\* the invocation would record an entry
Records(a) == Len(a) >= 1 /\ a[1] \in {"s", "e"}

---------------------------------------------------------------------------
(* Invocations that do not overlap: each runs from its start to its exit *)

Invoke(a) ==
    /\ pc[1] # "loaded"
    /\ \E r \in {main(a, file, now)} :
           /\ Len(r.file) <= MaxLog
           /\ file' = r.file
           /\ entries' = [entries EXCEPT ![1] = r.entries]
           /\ status' = [status EXCEPT ![1] = r.status]
           /\ out' = r.out
    /\ args' = [args EXCEPT ![1] = a]
    /\ pc' = [pc EXCEPT ![1] = "exited"]
    /\ UNCHANGED <<now, runs, call>>

\* time passes
Tick ==
    /\ \E t \in ClockValues : t > now /\ now' = t
    /\ UNCHANGED <<file, pc, entries, args, status, out, runs, call>>

Init == ToolInit /\ call = NoCall

Next == (\E a \in ArgSet : Invoke(a)) \/ Tick

Spec == Init /\ [][Next]_vars

---------------------------------------------------------------------------
(* Invocations that may overlap: main up to loadTs, then main from its switch *)

\* os.Args[1:] of the invocations that may overlap
RaceArgs == {<<"s">>, <<"e">>, <<"l">>}

\* main, lines 38 to 51: invocation p starts and loads the file
Start(p, a) ==
    /\ pc[p] # "loaded"
    /\ runs < MaxRuns
    /\ runs' = runs + 1
    /\ pc' = [pc EXCEPT ![p] = "loaded"]
    /\ args' = [args EXCEPT ![p] = a]
    /\ entries' = [entries EXCEPT ![p] = loadTs(file)]
    /\ status' = [status EXCEPT ![p] = 0]
    /\ UNCHANGED <<file, now, out, call>>

\* main, lines 53 to 67: invocation p runs its command and exits
Dispatch(p) ==
    /\ pc[p] = "loaded"
    /\ \E r \in {dispatch(args[p], entries[p], file, now)} :
           /\ file' = r.file
           /\ entries' = [entries EXCEPT ![p] = r.entries]
           /\ status' = [status EXCEPT ![p] = r.status]
           /\ out' = r.out
    /\ pc' = [pc EXCEPT ![p] = "exited"]
    /\ UNCHANGED <<now, args, runs, call>>

RaceNext == (\E p \in Procs, a \in RaceArgs : Start(p, a)) \/ (\E p \in Procs : Dispatch(p)) \/ Tick

SpecRace == Init /\ [][RaceNext]_vars

---------------------------------------------------------------------------
(* Properties of the tool *)

\* the numbers of the days the entries of a log fall on
Dates(log) == {DayOf(log[k].Timestamp) : k \in 1..Len(log)}

\* the entries of a log that fall on day d, in the order of the log
Bucket(log, d) == SelectSeq(log, LAMBDA e : DayOf(e.Timestamp) = d)

\* the date string of day d
DateString(d) == FormatDate(d * Day)

\* what calcWorktimeAll computes for day d of a log
DayWorktime(log, d) == calcWorktime(Bucket(log, d), FALSE, ZeroTime)

\* the days of a log counted as complete
CompleteDays(log) == {d \in Dates(log) : DayWorktime(log, d) # 0}

\* the sum of f[d] over the days d of S
RECURSIVE SumOver(_, _)
SumOver(f, S) ==
    IF S = {} THEN 0
    ELSE LET d == CHOOSE x \in S : TRUE IN f[d] + SumOver(f, S \ {d})

\* the sum of the durations of the complete days of a log
CompleteSum(log) ==
    SumOver([d \in Dates(log) |-> DayWorktime(log, d)], CompleteDays(log))

\* the line the report holds for day d
LineOf(report, d) ==
    report.lines[CHOOSE k \in 1..Len(report.lines) : report.lines[k].date = DateString(d)]

\* every date of the log has exactly one line, "No end entry" exactly when
\* the day's result is zero
LinesRight(report, log) ==
    /\ Len(report.lines) = Cardinality(Dates(log))
    /\ \A d \in Dates(log) :
          /\ \E k \in 1..Len(report.lines) : report.lines[k].date = DateString(d)
          /\ LineOf(report, d).noEnd = (DayWorktime(log, d) = 0)
          /\ Bucket(log, d)[Len(Bucket(log, d))].Type = "s" => LineOf(report, d).noEnd

DayNamed(str) == CHOOSE d \in 0..(MaxDay + 1) : DateString(d) = str

\* C4: the day grouping of calcWorktimeAll is a partition of the log: the
\* bucket keyed by a date holds exactly the entries of that date, in the
\* order of the log, no entry is lost or duplicated, and the buckets are
\* processed in strictly ascending date order.
C4_Partition ==
    out.cmd = "a" =>
        /\ DOMAIN out.dayEntries = {DateString(d) : d \in Dates(file)}
        /\ \A d \in Dates(file) : out.dayEntries[DateString(d)] = Bucket(file, d)
        /\ SumOver([d \in Dates(file) |-> Len(out.dayEntries[DateString(d)])], Dates(file))
              = Len(file)
        /\ Len(out.days) = Cardinality(Dates(file))
        /\ \A i, j \in 1..Len(out.days) :
              i < j => DayNamed(out.days[i]) < DayNamed(out.days[j])
        /\ \A k \in 1..Len(out.lines) : out.lines[k].date = out.days[k]

\* two dates, and two entries of one date that are not in timestamp order
C4_Witness ==
    /\ out.cmd = "a"
    /\ Len(out.days) = 2
    /\ Len(file) = 3
    /\ \E i, j \in 1..Len(file) :
          /\ i < j
          /\ DayOf(file[i].Timestamp) = DayOf(file[j].Timestamp)
          /\ file[i].Timestamp > file[j].Timestamp

\* C5: the file only grows by appending: a successful 's' or 'e' leaves the
\* log it found with exactly one new entry of its type at the end; every
\* other invocation, and an 's' or 'e' whose HH:MM does not parse (exit 1),
\* leaves the log as it found it.
C5_AppendOnly ==
    [][ IF now' = now
        THEN IF Records(args'[1]) /\ status'[1] = 0
             THEN /\ Len(file') = Len(file) + 1
                  /\ SubSeq(file', 1, Len(file)) = file
                  /\ file'[Len(file')].Type = args'[1][1]
             ELSE file' = file
        ELSE file' = file
      ]_vars

\* an 'e' with a time that does not parse exited with 1 on a log of 3 entries
C5_Witness ==
    /\ args[1] = <<"e", <<24, 0>>>>
    /\ status[1] = 1
    /\ pc[1] = "exited"
    /\ Len(file) = 3
    /\ file[3].Type = "s"

\* Start, End, Start, End, ..., optionally ending with one unmatched Start
WellFormed(es) == \A k \in 1..Len(es) : es[k].Type = (IF k % 2 = 1 THEN "s" ELSE "e")

\* C7: for every well-formed sequence the tool hands to calcWorktime, taken
\* in log order, the result is non-negative for both values of the flag.
C7_NonNegative ==
    LET es == todaysEntries(file, now)
    IN  WellFormed(es) =>
            /\ calcWorktime(es, TRUE, now) >= 0
            /\ calcWorktime(es, FALSE, now) >= 0

---------------------------------------------------------------------------
(* Properties of overlapping invocations, under SpecRace *)

\* C6: when invocation q has loaded a log, recorded its entry and exited
\* with status 0, and invocation p, which loaded the same log, then records
\* its entry, the file becomes the loaded log plus p's entry alone: q's
\* entry is not merged in.
C6_LastWriterWins ==
    [][ \A p, q \in Procs :
          (/\ p # q
           /\ pc[p] = "loaded" /\ pc'[p] = "exited"
           /\ Records(args[p]) /\ status'[p] = 0
           /\ pc[q] = "exited" /\ Records(args[q]) /\ status[q] = 0
           /\ Len(entries[q]) = Len(entries[p]) + 1
           /\ SubSeq(entries[q], 1, Len(entries[p])) = entries[p])
          => /\ Len(file') = Len(entries[p]) + 1
             /\ SubSeq(file', 1, Len(entries[p])) = entries[p]
             /\ file'[Len(file')] = [Timestamp |-> now, Type |-> args[p][1]]
      ]_vars

\* both invocations loaded a log of one entry and exited with 0; the file
\* holds invocation 2's entry and not invocation 1's
C6_Witness ==
    /\ pc[1] = "exited" /\ pc[2] = "exited"
    /\ status[1] = 0 /\ status[2] = 0
    /\ Records(args[1]) /\ Records(args[2])
    /\ Len(entries[1]) = 2 /\ Len(entries[2]) = 2
    /\ entries[1][1] = entries[2][1]
    /\ entries[1][2] # entries[2][2]
    /\ file = entries[2]

=============================================================================
